---------------------------- MODULE Spec2Model ----------------------------
(***************************************************************************)
(* Rehearsal audio processor: the detection pipeline of musicAnalyzer.py,  *)
(* its batch drivers (rehearsal_processor.py, song_finder.py), the         *)
(* reference matching engine and the silence segmentation of main.py.      *)
(*                                                                         *)
(* Four specifications share the variables below:                          *)
(*   Spec      the detection pipeline and its four entry points            *)
(*   SpecMatch MusicAnalyzer._reference_match, one loop iteration per step *)
(*   SpecSeg   process_file of main.py, main-v2.py and main-v3.py          *)
(*   SpecThr   recommend_silence_threshold of utils.py                     *)
(* SpecLive is Spec with the fairness of a single running thread.          *)
(* Scores are exact rationals [n, d]; the code computes them in binary     *)
(* floating point, whose rounding is not modelled.                         *)
(***************************************************************************)
EXTENDS Integers, Sequences, FiniteSets, TLC

VARIABLES
    pc,                   \* control position of the running entry point
    reference_signatures, \* MusicAnalyzer.reference_signatures, in dict insertion order
    current_sig,          \* _reference_match: the query signature (None: extraction failed)
    ref_i,                \* _reference_match: index of the next dict item
    best_match,           \* _reference_match: best_match
    best_score,           \* _reference_match: best_score
    scores,               \* observation: total_score of every item iterated so far
    match_out,            \* _reference_match: the list returned
    entry,                \* the entry point that is running
    SHAZAM_AVAILABLE,     \* musicAnalyzer.py: shazamio could be imported
    ACOUSTID_AVAILABLE,   \* musicAnalyzer.py: acoustid could be imported
    LIBROSA_AVAILABLE,    \* musicAnalyzer.py: librosa could be imported
    n_files,              \* len(audio_files)
    file_i,               \* how many of audio_files the file loop has taken
    segments,             \* the (start_ms, end_ms) ranges of the current file
    seg_i,                \* how many of segments the segment loop has taken
    detections,           \* _detect_song_segment: detections
    calls,                \* observation: the strategies invoked for this segment
    analyzed,             \* observation: _detect_song_segment calls of this pass
    results,              \* the results list of the running analysis function
    all_results,          \* process_folder: all_results
    csv_rows,             \* the rows written to the results CSV
    script,               \* process_file: which script's process_file runs
    mode,                 \* process_file: mode, "split" or "trim"
    audio,                \* process_file: audio, one amplitude per tick
    min_silence_len,      \* process_file: min_silence_len, in ticks
    keep_silence,         \* process_file: keep_silence, in ticks
    written,              \* the audio files exported to the output directory
    reference_folder,     \* MusicAnalyzer.reference_folder and what the folder holds
    profile,              \* recommend_silence_threshold: the loudness of each 100 ms chunk
    dbfs_values,          \* recommend_silence_threshold: dbfs_values
    thr_out,              \* observation: the outcome of every recommender call so far
    temp_files,           \* the temporary files on disk: what each path holds (0: no file)
    workers,              \* the strategy calls in flight, one per thread
    build_i,              \* _build_reference_database: how many files the loop has taken
    windows               \* observation: the slice fingerprinted for each reference file

match_vars == <<current_sig, ref_i, best_match, best_score, scores, match_out>>

pipeline_vars == <<entry, SHAZAM_AVAILABLE, ACOUSTID_AVAILABLE,
                   LIBROSA_AVAILABLE, n_files, file_i, segments, seg_i,
                   detections, calls, analyzed, results, all_results, csv_rows>>

seg_vars == <<script, mode, audio, min_silence_len, keep_silence, written>>

thr_vars == <<profile, dbfs_values, thr_out>>

temp_vars == <<temp_files, workers>>

build_vars == <<build_i, windows>>

vars == <<pc, reference_signatures, current_sig, ref_i, best_match,
          best_score, scores, match_out, entry, SHAZAM_AVAILABLE,
          ACOUSTID_AVAILABLE, LIBROSA_AVAILABLE, n_files, file_i, segments,
          seg_i, detections, calls, analyzed, results, all_results, csv_rows,
          script, mode, audio, min_silence_len, keep_silence, written,
          reference_folder, profile, dbfs_values, thr_out, temp_files,
          workers, build_i, windows>>

\* reference_folder=None, the default of MusicAnalyzer.__init__
NoFolder == [given |-> FALSE, exists |-> FALSE, files |-> <<>>]

\* the fixed paths of the strategies' temporary files, and the suffix of the
\* file convert_to_pcm writes
TempPaths == {"temp_segment.wav", "temp_ref.wav", "_temp.wav"}

\* no temporary file exists
NoFiles == [p \in TempPaths |-> 0]

\* the variables of recommend_silence_threshold while no SpecThr run is on
ThrIdle ==
    /\ profile = <<>>
    /\ dbfs_values = <<>>
    /\ thr_out = <<>>

\* the variables of process_file while no SpecSeg run is on
SegIdle ==
    /\ script = "main.py"
    /\ mode = "split"
    /\ audio = <<>>
    /\ min_silence_len = 0
    /\ keep_silence = 0
    /\ written = <<>>

\* the variables of an entry point that is not running
PipelineIdle ==
    /\ entry = "_reference_match"
    /\ SHAZAM_AVAILABLE = FALSE
    /\ ACOUSTID_AVAILABLE = FALSE
    /\ LIBROSA_AVAILABLE = TRUE
    /\ n_files = 0
    /\ file_i = 0
    /\ segments = <<>>
    /\ seg_i = 0
    /\ detections = <<>>
    /\ calls = <<>>
    /\ analyzed = 0
    /\ results = <<>>
    /\ all_results = <<>>
    /\ csv_rows = <<>>

\* Python's None where a name (a string) is expected
None == "None"

-----------------------------------------------------------------------------
(* Exact rational arithmetic for the similarity scores.                     *)

Abs(x) == IF x < 0 THEN -x ELSE x

RECURSIVE GCD(_, _)
GCD(a, b) == IF b = 0 THEN a ELSE GCD(b, a % b)

\* n/d in lowest terms, d > 0
Rat(n, d) ==
    LET g == GCD(Abs(n), d) IN [n |-> n \div g, d |-> d \div g]

RAdd(a, b) == Rat(a.n * b.d + b.n * a.d, a.d * b.d)
RMul(a, b) == Rat(a.n * b.n, a.d * b.d)
RLess(a, b) == a.n * b.d < b.n * a.d
RLeq(a, b) == a.n * b.d <= b.n * a.d
Zero == Rat(0, 1)
One == Rat(1, 1)

\* the floating-point NaN that numpy yields for 0/0
NaN == [n |-> 0, d |-> 0]

\* Python's max(0, x)
Max0(x) == IF RLess(Zero, x) THEN x ELSE Zero

Max(a, b) == IF a >= b THEN a ELSE b
Min(a, b) == IF a <= b THEN a ELSE b

RECURSIVE SumSeq(_)
SumSeq(s) == IF s = <<>> THEN 0 ELSE Head(s) + SumSeq(Tail(s))

Dot(x, y) == SumSeq([i \in 1..Len(x) |-> x[i] * y[i]])

\* the exact square root; undefined (a TLC error) for a non-square
ExactSqrt(k) == CHOOSE s \in 0..k : s * s = k


-----------------------------------------------------------------------------
(* Signatures and the Matching Engine (musicAnalyzer.py, _reference_match). *)

MaxRefs == 2

\* tempo in BPM as beat_track reports it (0 when no beat was found)
Tempos == {0, 60, 120}

\* chroma_mean / mfcc_mean, shortened to three components; <<1, 1, 1>> is a
\* constant vector, whose correlation with anything is NaN
ChromaVectors == {<<1, 1, 1>>, <<0, 0, 1>>, <<0, 1, 1>>}
MfccVectors == {<<1, 1, 1>>, <<0, 0, 1>>, <<1, 1, 0>>}

Signatures == [tempo : Tempos, chroma : ChromaVectors, mfcc : MfccVectors]

\* the None that _extract_signature returns after a caught exception
NoSignature == [tempo |-> -1, chroma |-> <<>>, mfcc |-> <<>>]

\* the signatures the reference tracks are drawn from
RefSignatures ==
    [tempo : {0, 120}, chroma : {<<1, 1, 1>>, <<0, 0, 1>>},
     mfcc : {<<1, 1, 1>>, <<0, 0, 1>>}]

SongNames == <<"song_a", "song_b", "song_c", "song_d">>

\* every dict of at most MaxRefs references, as the sequence of its items
RefDatabases ==
    UNION {{[i \in 1..k |-> [name |-> SongNames[i], sig |-> f[i]]] :
                f \in [1..k -> RefSignatures]} : k \in 0..MaxRefs}

\* np.corrcoef(x, y)[0, 1]
corrcoef(x, y) ==
    LET n == Len(x)
        cov == n * Dot(x, y) - SumSeq(x) * SumSeq(y)
        vx == n * Dot(x, x) - SumSeq(x) * SumSeq(x)
        vy == n * Dot(y, y) - SumSeq(y) * SumSeq(y)
    IN  IF vx = 0 \/ vy = 0 THEN NaN ELSE Rat(cov, ExactSqrt(vx * vy))

\* max(0, corr) if not np.isnan(corr) else 0
corr_score(corr) == IF corr = NaN THEN Zero ELSE Max0(corr)

\* max(0, 1 - abs(a - b) / max(a, b)), for max(a, b) > 0
tempo_score(a, b) == Max0(Rat(Max(a, b) - Abs(a - b), Max(a, b)))

TempoWeight == Rat(3, 10)
ChromaWeight == Rat(5, 10)
MfccWeight == Rat(2, 10)
AcceptFloor == Rat(6, 10)

\* total_score of one reference, for max(q.tempo, r.tempo) > 0
total_score(q, r) ==
    RAdd(RAdd(RMul(tempo_score(q.tempo, r.tempo), TempoWeight),
              RMul(corr_score(corrcoef(q.chroma, r.chroma)), ChromaWeight)),
         RMul(corr_score(corrcoef(q.mfcc, r.mfcc)), MfccWeight))

\* the division of line 290 raises ZeroDivisionError
tempo_division_raises(q, r) == Max(q.tempo, r.tempo) = 0

is_new_best_mut(total, best) == RLess(best, total) /\ RLeq(AcceptFloor, total)

\* total_score > best_score and total_score > 0.6
is_new_best(total, best) == RLess(best, total) /\ RLess(AcceptFloor, total)

reference_detection(name, score) ==
    [title |-> name, artist |-> "Cover", confidence |-> score,
     method |-> "reference_match"]

\* lines 281-286: extract the query signature, give up when that failed
MatchExtract ==
    /\ pc = "rm_start"
    /\ \E sig \in Signatures \cup {NoSignature} :
          /\ current_sig' = sig
          /\ IF sig = NoSignature
             THEN /\ match_out' = <<>>
                  /\ pc' = "rm_ret"
             ELSE /\ match_out' = match_out
                  /\ pc' = "rm_loop"
    /\ ref_i' = 1
    /\ best_match' = None
    /\ best_score' = Zero
    /\ UNCHANGED <<reference_folder, reference_signatures, scores, pipeline_vars, seg_vars, thr_vars, temp_vars, build_vars>>

\* lines 288-307: one iteration of the loop over reference_signatures.items()
MatchIterate ==
    /\ pc = "rm_loop"
    /\ ref_i <= Len(reference_signatures)
    /\ LET ref == reference_signatures[ref_i] IN
         IF tempo_division_raises(current_sig, ref.sig)
         THEN /\ pc' = "rm_raised"
              /\ UNCHANGED <<ref_i, best_match, best_score, scores>>
         ELSE LET total == total_score(current_sig, ref.sig) IN
              /\ scores' = Append(scores, total)
              /\ IF is_new_best(total, best_score)
                 THEN best_score' = total /\ best_match' = ref.name
                 ELSE UNCHANGED <<best_score, best_match>>
              /\ ref_i' = ref_i + 1
              /\ pc' = pc
    /\ UNCHANGED <<reference_folder, reference_signatures, current_sig, match_out, pipeline_vars, seg_vars, thr_vars, temp_vars, build_vars>>

\* lines 309-318: report the best match, if any
MatchReturn ==
    /\ pc = "rm_loop"
    /\ ref_i > Len(reference_signatures)
    /\ match_out' = IF best_match # None
                    THEN <<reference_detection(best_match, best_score)>>
                    ELSE <<>>
    /\ pc' = "rm_ret"
    /\ UNCHANGED <<reference_folder, reference_signatures, current_sig, ref_i, best_match,
                   best_score, scores, pipeline_vars, seg_vars, thr_vars, temp_vars, build_vars>>

InitMatch ==
    /\ pc = "rm_start"
    /\ reference_signatures \in RefDatabases
    /\ current_sig = NoSignature
    /\ ref_i = 1
    /\ best_match = None
    /\ best_score = Zero
    /\ scores = <<>>
    /\ match_out = <<>>
    /\ reference_folder = NoFolder
    /\ PipelineIdle
    /\ SegIdle
    /\ ThrIdle
    /\ temp_files = NoFiles
    /\ workers = <<>>
    /\ build_i = 0
    /\ windows = <<>>

NextMatch == MatchExtract \/ MatchIterate \/ MatchReturn

SpecMatch == InitMatch /\ [][NextMatch]_vars

-----------------------------------------------------------------------------
(* The detection pipeline: _detect_song_segment and the analysis functions  *)
(* that call it for every segment of a file.                                *)

MaxFiles == 2
MaxSegs == 2

Entries == {"process_folder", "find_song_in_folder",
            "analyze_with_silence_detection", "analyze_audio_file"}

FolderEntries == {"process_folder", "find_song_in_folder"}

\* durations (ms) of the sounds the segmenter finds: below 10 s, between 10 s
\* and 30 s, above 30 s
SegDurations == {5000, 20000, 45000}

\* the ranges of sounds of the given durations, the k-th sound starting one
\* second into the k-th minute of the file
Ranges(durs) ==
    [k \in 1..Len(durs) |->
        <<(k - 1) * 60000 + 1000, (k - 1) * 60000 + 1000 + durs[k]>>]

\* what silence.detect_nonsilent can hand to the segment loops
SegmentLists ==
    {Ranges(d) : d \in UNION {[1..k -> SegDurations] : k \in 0..MaxSegs}}

window_size == 30

\* range(0, duration_ms, window_size * 1000) with its min(...) end
Windows(duration_ms) ==
    LET w == window_size * 1000 IN
    [k \in 1..((duration_ms + w - 1) \div w) |->
        <<(k - 1) * w, Min(k * w, duration_ms)>>]

\* the windows of files whose last window is 5 s, 20 s or 30 s long
WindowLists ==
    {Windows(k * window_size * 1000 + r) :
        k \in 0..(MaxSegs - 1), r \in {5000, 20000, 30000}}

\* _ms_to_timestamp; "MM:SS" as the pair of its numbers
ms_to_timestamp(ms) == <<(ms \div 1000) \div 60, (ms \div 1000) % 60>>

\* f"{start_ms//60000:02d}:{(start_ms//1000)%60:02d}"
start_timestamp(start_ms) == <<start_ms \div 60000, (start_ms \div 1000) % 60>>

\* the "skip short segments" test of each segment loop
too_short(e, range) ==
    LET len == range[2] - range[1] IN
    CASE e = "process_folder" -> len < 30 * 1000
      [] e = "find_song_in_folder" -> len < 30000
      [] e = "analyze_audio_file" -> len < 10000
      [] OTHER -> FALSE

----
(* The four strategies, as functions of what their external call yields.    *)

ShazamOutcomes == {"match", "no_match", "exception"}

shazam_detection ==
    [title |-> "shazam_title", artist |-> "shazam_artist",
     confidence |-> Rat(9, 10), method |-> "shazam"]

shazam_detect_mut(outcome) ==
    [raised |-> outcome = "exception",
     dets |-> IF outcome = "match" THEN <<shazam_detection>> ELSE <<>>]

\* _shazam_detect: whether it raised, and the list it returned; the except
\* clause of line 123 turns every exception into []
shazam_detect(outcome) ==
    [raised |-> FALSE,
     dets |-> IF outcome = "match" THEN <<shazam_detection>> ELSE <<>>]

confidence_threshold == Rat(5, 10)

\* what acoustid.match yields: an exception, or the scores of its matches
AcoustidOutcomes ==
    {[raised |-> TRUE, found |-> <<>>],
     [raised |-> FALSE, found |-> <<Rat(3, 10)>>],
     [raised |-> FALSE, found |-> <<Rat(9, 10)>>],
     [raised |-> FALSE, found |-> <<Rat(9, 10), Rat(5, 10)>>]}

acoustid_detection(score) ==
    [title |-> "acoustid_title", artist |-> "acoustid_artist",
     confidence |-> score, method |-> "acoustid"]

RECURSIVE acoustid_matches(_)
acoustid_matches(found) ==
    IF found = <<>> THEN <<>>
    ELSE (IF RLeq(confidence_threshold, Head(found))
          THEN <<acoustid_detection(Head(found))>> ELSE <<>>)
         \o acoustid_matches(Tail(found))

\* _acoustid_detect: one detection per match with score >= confidence_threshold;
\* the except clause of line 171 turns every exception into []
acoustid_detect(outcome) ==
    [raised |-> FALSE,
     dets |-> IF outcome.raised THEN <<>> ELSE acoustid_matches(outcome.found)]

\* the loop of _reference_match from item i on
RECURSIVE match_loop(_, _, _, _, _)
match_loop(q, db, i, bm, bs) ==
    IF i > Len(db) THEN [raised |-> FALSE, name |-> bm, score |-> bs]
    ELSE IF tempo_division_raises(q, db[i].sig)
         THEN [raised |-> TRUE, name |-> bm, score |-> bs]
         ELSE LET total == total_score(q, db[i].sig) IN
              IF is_new_best(total, bs)
              THEN match_loop(q, db, i + 1, db[i].name, total)
              ELSE match_loop(q, db, i + 1, bm, bs)

\* a _reference_match call that drops the entry it compared first
signatures_after_match_mut(db) == Tail(db)

\* self.reference_signatures once _reference_match has returned or raised:
\* lines 279-318 read the dict through .items() and assign to no entry
signatures_after_match(db) == db

\* _reference_match as a whole: whether it raised, and the list it returned
reference_match(q, db) ==
    IF q = NoSignature THEN [raised |-> FALSE, dets |-> <<>>]
    ELSE LET r == match_loop(q, db, 1, None, Zero) IN
         [raised |-> r.raised,
          dets |-> IF ~r.raised /\ r.name # None
                   THEN <<reference_detection(r.name, r.score)>> ELSE <<>>]

\* beat_track's tempo for the segment; -1 stands for an exception in the try
TempoOutcomes == {-1, 59, 60, 180, 181}

\* _tempo_detect without the min(0.7, ...) of line 204
tempo_detect_uncapped(tempo_val) ==
    [raised |-> FALSE,
     dets |-> IF 60 <= tempo_val /\ tempo_val <= 180
              THEN <<[title |-> "Song_C_" \o ToString(tempo_val),
                      artist |-> "Key_C",
                      confidence |-> Rat(tempo_val, 120),
                      method |-> "audio_signature"]>>
              ELSE <<>>]

\* _tempo_detect without the range test of line 200
tempo_detect_mut(tempo_val) ==
    [raised |-> FALSE,
     dets |-> IF tempo_val >= 0
              THEN <<[title |-> "Song_C_" \o ToString(tempo_val),
                      artist |-> "Key_C",
                      confidence |-> IF RLess(Rat(7, 10), Rat(tempo_val, 120))
                                     THEN Rat(7, 10) ELSE Rat(tempo_val, 120),
                      method |-> "audio_signature"]>>
              ELSE <<>>]

\* _tempo_detect; the except clause of line 218 turns every exception into []
tempo_detect(tempo_val) ==
    [raised |-> FALSE,
     dets |-> IF 60 <= tempo_val /\ tempo_val <= 180
              THEN <<[title |-> "Song_C_" \o ToString(tempo_val),
                      artist |-> "Key_C",
                      confidence |-> IF RLess(Rat(7, 10), Rat(tempo_val, 120))
                                     THEN Rat(7, 10) ELSE Rat(tempo_val, 120),
                      method |-> "audio_signature"]>>
              ELSE <<>>]

fallthrough_mut(dets, available) == available

\* "if not detections and <strategy available>"
fallthrough(dets, available) == dets = <<>> /\ available

\* what a strategy call leaves in calls
call_record(strategy, failed, r) ==
    [strategy |-> strategy,
     outcome |-> IF r.raised THEN "raised"
                 ELSE IF failed THEN "exception"
                      ELSE IF r.dets = <<>> THEN "no_match" ELSE "match"]

SigA == [tempo |-> 120, chroma |-> <<0, 0, 1>>, mfcc |-> <<0, 0, 1>>]
SigSilent == [tempo |-> 0, chroma |-> <<1, 1, 1>>, mfcc |-> <<1, 1, 1>>]
SigOther == [tempo |-> 60, chroma |-> <<0, 1, 1>>, mfcc |-> <<1, 1, 0>>]

\* what _extract_signature yields for a segment
PipelineQueries == {NoSignature, SigA, SigSilent, SigOther}

\* reference_folder as __init__ receives it: given is its truthiness, exists
\* is os.path.exists, files are the audio files of os.listdir with the
\* signature _extract_signature yields for each (NoSignature: the load or the
\* extraction failed)
AbsentFolder == [given |-> TRUE, exists |-> FALSE, files |-> <<>>]
EmptyFolder == [given |-> TRUE, exists |-> TRUE, files |-> <<>>]

FolderOf(files) == [given |-> TRUE, exists |-> TRUE, files |-> files]

ReferenceFolders ==
    {NoFolder, AbsentFolder, EmptyFolder,
     FolderOf(<<[name |-> "song_c", sig |-> NoSignature]>>),
     FolderOf(<<[name |-> "song_a", sig |-> SigA]>>),
     FolderOf(<<[name |-> "song_a", sig |-> SigA],
                [name |-> "song_b", sig |-> SigSilent]>>)}

has_signature(f) == f.sig # NoSignature

\* the same construction without the "if signature" test
build_reference_database_mut(folder, librosa) ==
    IF ~folder.given \/ ~librosa \/ ~folder.exists
    THEN <<>>
    ELSE folder.files

\* __init__ and _build_reference_database: the dict the constructor leaves
build_reference_database(folder, librosa) ==
    IF ~folder.given \/ ~librosa \/ ~folder.exists
    THEN <<>>
    ELSE SelectSeq(folder.files, has_signature)

----
(* Result records.                                                          *)

\* the row written when detections is empty
undetected ==
    [title |-> "undetected", artist |-> "", confidence |-> Zero, method |-> "none"]

\* analyze_segments, lines 74-94; the file is named by its index
segment_record(f, i, range, d) ==
    [file |-> f, segment |-> i, start_time |-> start_timestamp(range[1]),
     duration_s |-> (range[2] - range[1]) \div 1000,
     song |-> d.title, artist |-> d.artist, confidence |-> d.confidence,
     method |-> d.method]

\* analyze_with_silence_detection, lines 353-371
silence_record(i, range, d) ==
    [segment |-> i, timestamp |-> ms_to_timestamp(range[1]),
     duration |-> (range[2] - range[1]) \div 1000,
     song |-> d.title, artist |-> d.artist, confidence |-> d.confidence,
     method |-> d.method]

\* analyze_audio_file, lines 66-80
window_record(range, d) ==
    [timestamp |-> ms_to_timestamp(range[1]),
     song |-> d.title, artist |-> d.artist, confidence |-> d.confidence,
     method |-> d.method]

\* find_song_in_folder, lines 54-60
finder_record(f, range, d) ==
    [file |-> f, time_code |-> start_timestamp(range[1]),
     detected_song |-> d.title, artist |-> d.artist, confidence |-> d.confidence]

\* the song find_song_in_folder looks for
song_name == "song_a"

\* title_match or artist_match; names are atoms, so containment is equality
song_matches(d) == d.title = song_name \/ d.artist = song_name

records_of_mut(e, f, i, range, dets) ==
    IF e = "find_song_in_folder"
    THEN LET hits == SelectSeq(dets, song_matches) IN
         [k \in 1..Len(hits) |-> finder_record(f, range, hits[k])]
    ELSE [k \in 1..Len(dets) |->
            CASE e = "process_folder" -> segment_record(f, i, range, dets[k])
              [] e = "analyze_with_silence_detection" ->
                    silence_record(i, range, dets[k])
              [] OTHER -> window_record(range, dets[k])]

\* the records one analyzed segment adds to results: one per detection, or
\* the undetected row (find_song_in_folder: one per matching detection)
records_of(e, f, i, range, dets) ==
    IF e = "find_song_in_folder"
    THEN LET hits == SelectSeq(dets, song_matches) IN
         [k \in 1..Len(hits) |-> finder_record(f, range, hits[k])]
    ELSE LET shown == IF dets = <<>> THEN <<undetected>> ELSE dets IN
         [k \in 1..Len(shown) |->
            CASE e = "process_folder" -> segment_record(f, i, range, shown[k])
              [] e = "analyze_with_silence_detection" ->
                    silence_record(i, range, shown[k])
              [] OTHER -> window_record(range, shown[k])]

\* the records of a segment put in front of the earlier ones
results_append_mut(rs, records) == records \o rs

\* results.append(...) for each record of the segment, in the loop over the
\* segments (rehearsal_processor.py:75-94, musicAnalyzer.py:353-371)
results_append(rs, records) == rs \o records

\* save_results_csv: the fieldnames of its DictWriter
csv_fieldnames == {"timestamp", "song", "artist", "confidence", "method"}

\* DictWriter.writerows raises ValueError on a key outside fieldnames
rows_accepted(rows) == \A k \in 1..Len(rows) : DOMAIN rows[k] \subseteq csv_fieldnames

----
(* The file loop, the segment loop and _detect_song_segment.                *)

detect_frame == <<reference_folder, reference_signatures, current_sig, ref_i, best_match,
                  best_score, scores, match_out, entry, SHAZAM_AVAILABLE,
                  ACOUSTID_AVAILABLE, LIBROSA_AVAILABLE, n_files, file_i,
                  segments, seg_i, analyzed, results, all_results, csv_rows,
                  seg_vars, thr_vars, temp_vars, build_vars>>

loop_frame == <<reference_folder, reference_signatures, current_sig, ref_i, best_match,
                best_score, scores, match_out, entry, SHAZAM_AVAILABLE,
                ACOUSTID_AVAILABLE, LIBROSA_AVAILABLE, n_files, seg_vars, thr_vars, temp_vars, build_vars>>

\* the next file is loaded and segmented (detect_song_segments; the loads of
\* song_finder.py:33-37, musicAnalyzer.py:47 and :343)
LoadFile ==
    /\ pc = "files"
    /\ file_i < n_files
    /\ \E segs \in (IF entry = "analyze_audio_file" THEN WindowLists
                    ELSE SegmentLists) :
          /\ segments' = segs
          /\ pc' = IF entry = "process_folder" /\ segs = <<>>
                   THEN "files" ELSE "segs"
    /\ file_i' = file_i + 1
    /\ seg_i' = 0
    /\ analyzed' = 0
    /\ results' = IF entry = "find_song_in_folder" THEN results ELSE <<>>
    /\ UNCHANGED <<loop_frame, detections, calls, all_results, csv_rows>>

\* AudioSegment.from_wav raises on the next file: process_folder catches it
\* (lines 119-121), the other entry points do not
LoadFileFails ==
    /\ pc = "files"
    /\ file_i < n_files
    /\ file_i' = file_i + 1
    /\ pc' = IF entry = "process_folder" THEN "files" ELSE "crashed"
    /\ UNCHANGED <<loop_frame, segments, seg_i, analyzed, results, detections,
                   calls, all_results, csv_rows>>

\* the file loop of process_folder / find_song_in_folder is exhausted
FilesDone ==
    /\ pc = "files"
    /\ file_i = n_files
    /\ pc' = "save"
    /\ UNCHANGED <<loop_frame, file_i, segments, seg_i, analyzed, results,
                   detections, calls, all_results, csv_rows>>

\* the segment loop takes its next range: it skips a short one, and calls
\* _detect_song_segment on any other
NextSegment ==
    /\ pc = "segs"
    /\ seg_i < Len(segments)
    /\ seg_i' = seg_i + 1
    /\ IF too_short(entry, segments[seg_i + 1])
       THEN UNCHANGED <<pc, detections, calls, analyzed>>
       ELSE /\ pc' = "d1"
            /\ detections' = <<>>
            /\ calls' = <<>>
            /\ analyzed' = analyzed + 1
    /\ UNCHANGED <<loop_frame, file_i, segments, results, all_results, csv_rows>>

\* the segment loop is exhausted: the analysis function returns results
\* (find_song_in_folder goes on with its file loop)
SegmentsDone ==
    /\ pc = "segs"
    /\ seg_i = Len(segments)
    /\ IF entry = "find_song_in_folder"
       THEN /\ pc' = "files"
            /\ segments' = <<>>
            /\ seg_i' = 0
            /\ analyzed' = 0
       ELSE /\ pc' = "as_ret"
            /\ UNCHANGED <<segments, seg_i, analyzed>>
    /\ UNCHANGED <<loop_frame, file_i, results, detections, calls, all_results,
                   csv_rows>>

\* lines 88-90
Method1 ==
    /\ pc = "d1"
    /\ IF SHAZAM_AVAILABLE
       THEN \E o \in ShazamOutcomes :
              LET r == shazam_detect(o) IN
              /\ detections' = detections \o r.dets
              /\ calls' = Append(calls, call_record("shazam", o = "exception", r))
              /\ pc' = IF r.raised THEN "raised" ELSE "d2"
       ELSE /\ UNCHANGED <<detections, calls>>
            /\ pc' = "d2"
    /\ UNCHANGED detect_frame

\* line 115: loop.run_until_complete waits for shazam.recognize (line 130),
\* which is awaited without a timeout; while the service sends no answer the
\* call does not return
Method1Waits ==
    /\ pc = "d1"
    /\ SHAZAM_AVAILABLE
    /\ pc' = "d1_waiting"
    /\ UNCHANGED <<detect_frame, detections, calls>>

\* lines 92-94
Method2 ==
    /\ pc = "d2"
    /\ IF fallthrough(detections, ACOUSTID_AVAILABLE)
       THEN \E o \in AcoustidOutcomes :
              LET r == acoustid_detect(o) IN
              /\ detections' = detections \o r.dets
              /\ calls' = Append(calls, call_record("acoustid", o.raised, r))
              /\ pc' = IF r.raised THEN "raised" ELSE "d3"
       ELSE /\ UNCHANGED <<detections, calls>>
            /\ pc' = "d3"
    /\ UNCHANGED detect_frame

\* lines 96-98; an exception of _reference_match leaves _detect_song_segment
Method3 ==
    /\ pc = "d3"
    /\ IF fallthrough(detections, reference_signatures # <<>>)
       THEN \E q \in PipelineQueries :
              LET r == reference_match(q, reference_signatures) IN
              /\ detections' = detections \o r.dets
              /\ calls' = Append(calls, call_record("reference", FALSE, r))
              /\ reference_signatures' = signatures_after_match(reference_signatures)
              /\ pc' = IF r.raised THEN "raised" ELSE "d4"
       ELSE /\ UNCHANGED <<detections, calls, reference_signatures>>
            /\ pc' = "d4"
    /\ UNCHANGED <<reference_folder, match_vars, entry, SHAZAM_AVAILABLE,
                   ACOUSTID_AVAILABLE, LIBROSA_AVAILABLE, n_files, file_i,
                   segments, seg_i, analyzed, results, all_results, csv_rows,
                   seg_vars, thr_vars, temp_vars, build_vars>>

\* lines 100-104
Method4 ==
    /\ pc = "d4"
    /\ IF fallthrough(detections, LIBROSA_AVAILABLE)
       THEN \E t \in TempoOutcomes :
              LET r == tempo_detect(t) IN
              /\ detections' = detections \o r.dets
              /\ calls' = Append(calls, call_record("tempo", t = -1, r))
              /\ pc' = IF r.raised THEN "raised" ELSE "d_ret"
       ELSE /\ UNCHANGED <<detections, calls>>
            /\ pc' = "d_ret"
    /\ UNCHANGED detect_frame

\* _detect_song_segment has returned: the caller appends its records
AppendRecords ==
    /\ pc = "d_ret"
    /\ results' = results_append(results,
          records_of(entry, file_i, seg_i, segments[seg_i], detections))
    /\ pc' = "segs"
    /\ detections' = <<>>
    /\ calls' = <<>>
    /\ UNCHANGED <<loop_frame, file_i, segments, seg_i, analyzed, all_results,
                   csv_rows>>

\* an exception leaves the segment loop: process_folder catches it at line
\* 119, so analyze_segments never returns its results; the other entry
\* points have no handler
HandleException ==
    /\ pc = "raised"
    /\ IF entry = "process_folder"
       THEN pc' = "files" /\ results' = <<>>
       ELSE pc' = "crashed" /\ results' = results
    /\ detections' = <<>>
    /\ calls' = <<>>
    /\ segments' = <<>>
    /\ seg_i' = 0
    /\ analyzed' = 0
    /\ UNCHANGED <<loop_frame, file_i, all_results, csv_rows>>

\* the analysis function has returned: process_folder extends all_results
\* (line 117), main keeps the list for saving
AnalysisReturns ==
    /\ pc = "as_ret"
    /\ IF entry = "process_folder"
       THEN /\ all_results' = all_results \o results
            /\ results' = <<>>
            /\ pc' = "files"
       ELSE /\ UNCHANGED <<all_results, results>>
            /\ pc' = "save"
    /\ segments' = <<>>
    /\ seg_i' = 0
    /\ analyzed' = 0
    /\ UNCHANGED <<loop_frame, file_i, detections, calls, csv_rows>>

\* the results are written: save_results_csv (rehearsal_processor.py:124-126,
\* main.py:127-128, musicAnalyzer.py:409-411), or the writer of
\* find_song_in_folder
SaveResults ==
    /\ pc = "save"
    /\ LET rows == IF entry = "process_folder" THEN all_results ELSE results IN
       IF rows = <<>> THEN pc' = "done" /\ csv_rows' = csv_rows
       ELSE IF entry = "find_song_in_folder" \/ rows_accepted(rows)
            THEN pc' = "done" /\ csv_rows' = rows
            ELSE pc' = "crashed" /\ csv_rows' = csv_rows
    /\ UNCHANGED <<loop_frame, file_i, segments, seg_i, analyzed, results,
                   detections, calls, all_results>>

\* the variables of _reference_match while no SpecMatch run is on
MatchIdle ==
    /\ current_sig = NoSignature
    /\ ref_i = 1
    /\ best_match = None
    /\ best_score = Zero
    /\ scores = <<>>
    /\ match_out = <<>>

\* after construction of the analyzer, before the first file
Init ==
    /\ pc = "files"
    /\ entry \in Entries
    /\ SHAZAM_AVAILABLE \in BOOLEAN
    /\ ACOUSTID_AVAILABLE \in BOOLEAN
    /\ LIBROSA_AVAILABLE \in BOOLEAN
    /\ reference_folder \in ReferenceFolders
    /\ entry = "analyze_with_silence_detection" => reference_folder = NoFolder
    /\ reference_signatures =
           build_reference_database(reference_folder, LIBROSA_AVAILABLE)
    /\ n_files \in (IF entry \in FolderEntries THEN 1..MaxFiles ELSE {1})
    /\ file_i = 0
    /\ segments = <<>>
    /\ seg_i = 0
    /\ detections = <<>>
    /\ calls = <<>>
    /\ analyzed = 0
    /\ results = <<>>
    /\ all_results = <<>>
    /\ csv_rows = <<>>
    /\ MatchIdle
    /\ SegIdle
    /\ ThrIdle
    /\ temp_files = NoFiles
    /\ workers = <<>>
    /\ build_i = 0
    /\ windows = <<>>

Next ==
    \/ LoadFile
    \/ LoadFileFails
    \/ FilesDone
    \/ NextSegment
    \/ SegmentsDone
    \/ Method1
    \/ Method1Waits
    \/ Method2
    \/ Method3
    \/ Method4
    \/ AppendRecords
    \/ HandleException
    \/ AnalysisReturns
    \/ SaveResults

Spec == Init /\ [][Next]_vars

\* The entry points run in one thread: a step that can be taken is taken.
SpecLive == Init /\ [][Next]_vars /\ WF_vars(Next)

-----------------------------------------------------------------------------
(* Silence segmentation: process_file of main.py, main-v2.py and main-v3.py *)
(* over pydub's silence.detect_silence, detect_nonsilent and                *)
(* split_on_silence.  Time is counted in ticks (one tick is 200 ms in the   *)
(* benchmark scenario) and seek_step is one tick; a buffer holds one        *)
(* amplitude per tick.                                                      *)

MaxBufLen == 5

Scripts == {"main.py", "main-v2.py", "main-v3.py"}

Modes == {"split", "trim"}

\* true silence, a quiet level under the threshold, a level just over the
\* threshold, and a loud level
Amplitudes == {0, 1, 2, 5}

\* silence_thresh as an amplitude: db_to_float(dBFS) * max_possible_amplitude,
\* rounded down, since the rms it is compared with is an integer
silence_thresh == 1

MinSilenceLens == {2, 3}

KeepSilences == {0, 1, 2}

Buffers == UNION {[1..n -> Amplitudes] : n \in 1..MaxBufLen}

Tone == [k \in 1..100 |-> 5]

Gap == [k \in 1..10 |-> 0]

\* three 20 s tones, 2 s of true silence between and around them
BenchmarkAudio == Gap \o Tone \o Gap \o Tone \o Gap \o Tone \o Gap

RECURSIVE SumSquares(_, _, _)
SumSquares(buf, lo, hi) ==
    IF lo > hi THEN 0 ELSE buf[lo] * buf[lo] + SumSquares(buf, lo + 1, hi)

\* audio_segment[i : i + n].rms <= silence_thresh, rms being the integer part
\* of the root of the mean square
is_silent_slice(buf, i, n) ==
    SumSquares(buf, i + 1, i + n) < (silence_thresh + 1) * (silence_thresh + 1) * n

RECURSIVE SortedSeq(_)
SortedSeq(S) ==
    IF S = {} THEN <<>>
    ELSE LET m == CHOOSE x \in S : \A y \in S : x <= y
         IN <<m>> \o SortedSeq(S \ {m})

group_silence_mut(silence_starts, msl) ==
    LET starts == SortedSeq({i \in silence_starts :
                               \A j \in silence_starts : j < i => i > j + msl})
        ends == SortedSeq({i \in silence_starts :
                             \A j \in silence_starts : j > i => j > i + msl})
        n == Len(starts)
    IN [k \in 1..n |-> <<starts[n + 1 - k], ends[n + 1 - k] + msl>>]

\* detect_silence, second half: consecutive silent slice starts are grouped;
\* a start opens a range when every earlier start is more than
\* min_silence_len behind it, and closes one symmetrically
group_silence(silence_starts, msl) ==
    LET starts == SortedSeq({i \in silence_starts :
                               \A j \in silence_starts : j < i => i > j + msl})
        ends == SortedSeq({i \in silence_starts :
                             \A j \in silence_starts : j > i => j > i + msl})
    IN [k \in 1..Len(starts) |-> <<starts[k], ends[k] + msl>>]

\* pydub.silence.detect_silence with seek_step = 1
detect_silence(buf, msl) ==
    IF Len(buf) < msl THEN <<>>
    ELSE group_silence({i \in 0..(Len(buf) - msl) : is_silent_slice(buf, i, msl)}, msl)

invert_ranges_mut(silent_ranges, len_seg) ==
    IF silent_ranges = <<>> THEN <<>>
    ELSE << <<0, silent_ranges[1][1]>> >>

\* detect_nonsilent, second half: the complement of the silent ranges
invert_ranges(silent_ranges, len_seg) ==
    LET n == Len(silent_ranges) IN
    IF silent_ranges = <<>> THEN << <<0, len_seg>> >>
    ELSE IF silent_ranges[1][1] = 0 /\ silent_ranges[1][2] = len_seg THEN <<>>
    ELSE LET between == [k \in 1..n |->
                            <<IF k = 1 THEN 0 ELSE silent_ranges[k - 1][2],
                              silent_ranges[k][1]>>]
             last == IF silent_ranges[n][2] # len_seg
                     THEN << <<silent_ranges[n][2], len_seg>> >>
                     ELSE <<>>
             nonsilent_ranges == between \o last
         IN IF nonsilent_ranges[1] = <<0, 0>>
            THEN Tail(nonsilent_ranges)
            ELSE nonsilent_ranges

\* pydub.silence.detect_nonsilent
detect_nonsilent(buf, msl) == invert_ranges(detect_silence(buf, msl), Len(buf))

\* split_on_silence, second half: every non-silent range padded by
\* keep_silence, two padded ranges that overlap cut at their midpoint, the
\* result clamped to the buffer
output_ranges(ns, keep, len_seg) ==
    LET n == Len(ns)
        out == [k \in 1..n |-> <<ns[k][1] - keep, ns[k][2] + keep>>]
        start_of(k) == IF k > 1 /\ out[k][1] < out[k - 1][2]
                       THEN (out[k - 1][2] + out[k][1]) \div 2
                       ELSE out[k][1]
        end_of(k) == IF k < n /\ out[k + 1][1] < out[k][2]
                     THEN (out[k][2] + out[k + 1][1]) \div 2
                     ELSE out[k][2]
    IN [k \in 1..n |-> <<Max(start_of(k), 0), Min(end_of(k), len_seg)>>]

\* pydub.silence.split_on_silence, as the ranges of its chunks
split_on_silence(buf, msl, keep) ==
    output_ranges(detect_nonsilent(buf, msl), keep, Len(buf))

\* audio[start:end], as the positions of the buffer it holds
slice(start, end) == [k \in 1..(end - start) |-> start + k - 1]

\* AudioSegment.silent(duration): samples that come from no position
silent(duration) == [k \in 1..duration |-> -1]

RECURSIVE concat(_, _)
concat(ranges, pad) ==
    IF ranges = <<>> THEN <<>>
    ELSE slice(ranges[1][1], ranges[1][2]) \o silent(pad) \o concat(Tail(ranges), pad)

segment_file(i, range) ==
    [name |-> "segment", index |-> i, content |-> slice(range[1], range[2])]

trimmed_file(content) ==
    [name |-> "trimmed", index |-> 0, content |-> content]

seg_frame == <<reference_folder, thr_vars, workers, build_vars, reference_signatures, match_vars, entry, SHAZAM_AVAILABLE,
               ACOUSTID_AVAILABLE, LIBROSA_AVAILABLE, n_files, file_i,
               detections, calls, analyzed, results, all_results, csv_rows,
               script, mode, audio, min_silence_len, keep_silence>>

\* main.py lines 51-57: keep_silence is not passed on
main_detect ==
    /\ pc = "pf_detect"
    /\ script = "main.py"
    /\ segments' = detect_nonsilent(audio, min_silence_len)
    /\ pc' = IF segments' = <<>> THEN "pf_skipped"
             ELSE IF mode = "split" THEN "pf_split" ELSE "pf_trim"
    /\ UNCHANGED <<seg_frame, seg_i, written, temp_files>>

\* main-v2.py lines 73-81 (split) and 90-99 (trim)
main_v2_detect ==
    /\ pc = "pf_detect"
    /\ script = "main-v2.py"
    /\ IF mode = "split"
       THEN /\ segments' = split_on_silence(audio, min_silence_len, keep_silence)
            /\ pc' = "pf_split"
       ELSE /\ segments' = detect_nonsilent(audio, min_silence_len)
            /\ pc' = IF segments' = <<>> THEN "pf_skipped" ELSE "pf_trim"
    /\ UNCHANGED <<seg_frame, seg_i, written, temp_files>>

\* main-v3.py lines 62-64 (trim_silence) and 74-77 (split_audio)
main_v3_detect ==
    /\ pc = "pf_detect"
    /\ script = "main-v3.py"
    /\ IF mode = "split"
       THEN /\ segments' = split_on_silence(audio, min_silence_len, keep_silence)
            /\ pc' = "pf_split"
       ELSE /\ segments' = detect_nonsilent(audio, min_silence_len)
            /\ pc' = "pf_trim"
    /\ UNCHANGED <<seg_frame, seg_i, written, temp_files>>

\* one iteration of the export loop of split mode
ExportSegment ==
    /\ pc = "pf_split"
    /\ seg_i < Len(segments)
    /\ seg_i' = seg_i + 1
    /\ written' = Append(written, segment_file(seg_i', segments[seg_i']))
    /\ UNCHANGED <<seg_frame, pc, segments, temp_files>>

\* the export loop is exhausted; main.py lines 133-134 remove the file
\* convert_to_pcm wrote
SplitDone ==
    /\ pc = "pf_split"
    /\ seg_i = Len(segments)
    /\ pc' = "pf_done"
    /\ temp_files' = [temp_files EXCEPT !["_temp.wav"] = 0]
    /\ UNCHANGED <<seg_frame, segments, seg_i, written>>

\* trim mode: the kept ranges are concatenated and saved as one file;
\* main-v3.py follows each with keep_silence of silence
ExportTrimmed ==
    /\ pc = "pf_trim"
    /\ LET pad == IF script = "main-v3.py" THEN keep_silence ELSE 0
       IN written' = Append(written, trimmed_file(concat(segments, pad)))
    /\ pc' = "pf_done"
    /\ temp_files' = [temp_files EXCEPT !["_temp.wav"] = 0]
    /\ UNCHANGED <<seg_frame, segments, seg_i>>

\* process_file is called with a decoded buffer and its arguments; in main.py
\* the buffer may come from the file convert_to_pcm wrote (lines 25-30); the last
\* disjunct is the call of benchmark.py (min_silence_len=1000, keep_silence=200)
InitSeg ==
    /\ pc = "pf_detect"
    /\ script \in Scripts
    /\ mode \in Modes
    /\ \/ /\ audio \in Buffers
          /\ min_silence_len \in MinSilenceLens
          /\ keep_silence \in KeepSilences
       \/ /\ audio = BenchmarkAudio
          /\ script = "main.py"
          /\ min_silence_len = 5
          /\ keep_silence = 1
    /\ written = <<>>
    /\ reference_signatures = <<>>
    /\ reference_folder = NoFolder
    /\ MatchIdle
    /\ PipelineIdle
    /\ ThrIdle
    /\ workers = <<>>
    /\ build_i = 0
    /\ windows = <<>>
    /\ \E converted_to_wav \in BOOLEAN :
          temp_files = [NoFiles EXCEPT !["_temp.wav"] =
                           IF script = "main.py" /\ converted_to_wav THEN 1 ELSE 0]

NextSeg ==
    \/ main_detect
    \/ main_v2_detect
    \/ main_v3_detect
    \/ ExportSegment
    \/ SplitDone
    \/ ExportTrimmed

SpecSeg == InitSeg /\ [][NextSeg]_vars

-----------------------------------------------------------------------------
(* recommend_silence_threshold of utils.py. A loudness value is a record:   *)
(* k tells a finite value from -inf, +inf and NaN, v is the finite value in *)
(* dBFS. Bin edges are exact rationals.                                     *)

MaxProfile == 4

\* loudness levels that give integral, half-integral and other bin edges
Levels == {-80, -78, -5}

Fin(v) == [k |-> "fin", v |-> v]
NegInf == [k |-> "-inf", v |-> 0]
PosInf == [k |-> "+inf", v |-> 0]
NotANumber == [k |-> "nan", v |-> 0]

DbfsValues == {Fin(v) : v \in Levels} \cup {NegInf, PosInf, NotANumber}

\* what the function is called with: the dBFS of each 100 ms chunk of an
\* AudioSegment, or a caller's array
Profiles == UNION {[1..n -> DbfsValues] : n \in 0..MaxProfile}

bins == 50
default_threshold == -40
peak_offset == 5

\* a list that still holds the last chunk of the previous call
samples_init_mut(previous) ==
    IF previous = <<>> THEN <<>> ELSE <<previous[Len(previous)]>>

\* line 62: samples = []
samples_init(previous) == <<>>

\* x > -np.inf: false for -inf and for NaN, true for +inf
above_neg_inf(x) == x.k \in {"fin", "+inf"}

\* line 72: dbfs_values[dbfs_values > -np.inf]
filter_values(vals) == SelectSeq(vals, above_neg_inf)

\* np.histogram raises ValueError unless a.min() and a.max() are finite
range_is_finite(vals) == \A i \in 1..Len(vals) : vals[i].k = "fin"

a_min(vals) == CHOOSE m \in {vals[i].v : i \in 1..Len(vals)} :
                   \A i \in 1..Len(vals) : m <= vals[i].v
a_max(vals) == CHOOSE m \in {vals[i].v : i \in 1..Len(vals)} :
                   \A i \in 1..Len(vals) : m >= vals[i].v

\* twice the outer edges of np.histogram: (min, max), widened by 0.5 each
\* way when min = max
first_edge2(vals) ==
    IF a_min(vals) = a_max(vals) THEN 2 * a_min(vals) - 1 ELSE 2 * a_min(vals)
last_edge2(vals) ==
    IF a_min(vals) = a_max(vals) THEN 2 * a_max(vals) + 1 ELSE 2 * a_max(vals)

\* the bin of value v: bins are half-open, the last one is closed
bin_of(v, lo2, hi2) ==
    Min(((2 * v - lo2) * bins) \div (hi2 - lo2), bins - 1)

\* hist of np.histogram(dbfs_values, bins=50)
histogram(vals, lo2, hi2) ==
    [b \in 0..(bins - 1) |->
        Cardinality({i \in 1..Len(vals) : bin_of(vals[i].v, lo2, hi2) = b})]

\* the highest index of the maximum
argmax_mut(hist) ==
    CHOOSE b \in DOMAIN hist :
        /\ \A c \in DOMAIN hist : hist[c] <= hist[b]
        /\ \A c \in DOMAIN hist : c > b => hist[c] < hist[b]

\* np.argmax: the lowest index of the maximum
argmax(hist) ==
    CHOOSE b \in DOMAIN hist :
        /\ \A c \in DOMAIN hist : hist[c] <= hist[b]
        /\ \A c \in DOMAIN hist : c < b => hist[c] < hist[b]

\* bin_edges[b] = first + b * (last - first) / bins
bin_edge(b, lo2, hi2) == Rat(bins * lo2 + b * (hi2 - lo2), 2 * bins)

\* line 77: peak_bin = bin_edges[np.argmax(hist)]
peak_bin(vals) ==
    bin_edge(argmax(histogram(vals, first_edge2(vals), last_edge2(vals))),
             first_edge2(vals), last_edge2(vals))

\* Python's round: the nearest integer, a tie goes to the even one
py_round(x) ==
    LET f == x.n \div x.d
        r2 == 2 * (x.n - f * x.d)
    IN  IF r2 < x.d THEN f
        ELSE IF r2 > x.d THEN f + 1
        ELSE IF f % 2 = 0 THEN f ELSE f + 1

returned(value) == [raised |-> FALSE, value |-> value]
ValueError == [raised |-> TRUE, value |-> 0]

\* lines 59-69: dbfs_values is the array of chunk loudness (or the array
\* passed in)
recommend_sample ==
    /\ pc = "rt_start"
    /\ dbfs_values' = samples_init(dbfs_values) \o profile
    /\ pc' = "rt_filter"
    /\ UNCHANGED <<reference_folder, reference_signatures, match_vars,
                   pipeline_vars, seg_vars, temp_vars, build_vars, profile, thr_out>>

\* lines 71-74: the filter, and the fallback when nothing is left
recommend_filter ==
    /\ pc = "rt_filter"
    /\ dbfs_values' = filter_values(dbfs_values)
    /\ IF Len(dbfs_values') = 0
       THEN /\ thr_out' = Append(thr_out, returned(default_threshold))
            /\ pc' = "rt_ret"
       ELSE /\ pc' = "rt_hist"
            /\ UNCHANGED thr_out
    /\ UNCHANGED <<reference_folder, reference_signatures, match_vars,
                   pipeline_vars, seg_vars, temp_vars, build_vars, profile>>

\* lines 76-78: the histogram, its peak and the value returned
recommend_histogram ==
    /\ pc = "rt_hist"
    /\ IF range_is_finite(dbfs_values)
       THEN /\ thr_out' = Append(thr_out,
                   returned(py_round(RAdd(peak_bin(dbfs_values),
                                          Rat(-peak_offset, 1)))))
            /\ pc' = "rt_ret"
       ELSE /\ thr_out' = Append(thr_out, ValueError)
            /\ pc' = "rt_raised"
    /\ UNCHANGED <<reference_folder, reference_signatures, match_vars,
                   pipeline_vars, seg_vars, temp_vars, build_vars, profile, dbfs_values>>

\* the caller asks again for the same audio
recommend_again ==
    /\ pc \in {"rt_ret", "rt_raised"}
    /\ Len(thr_out) < 2
    /\ pc' = "rt_start"
    /\ UNCHANGED <<reference_folder, reference_signatures, match_vars,
                   pipeline_vars, seg_vars, thr_vars, temp_vars, build_vars>>

InitThr ==
    /\ pc = "rt_start"
    /\ profile \in Profiles
    /\ dbfs_values = <<>>
    /\ thr_out = <<>>
    /\ reference_signatures = <<>>
    /\ reference_folder = NoFolder
    /\ MatchIdle
    /\ PipelineIdle
    /\ SegIdle
    /\ temp_files = NoFiles
    /\ workers = <<>>
    /\ build_i = 0
    /\ windows = <<>>

NextThr ==
    \/ recommend_sample
    \/ recommend_filter
    \/ recommend_histogram
    \/ recommend_again

SpecThr == InitThr /\ [][NextThr]_vars

-----------------------------------------------------------------------------
(* The temporary files of the strategies (_shazam_detect, _acoustid_detect, *)
(* _tempo_detect, _extract_signature), with one call per thread. Worker w   *)
(* analyses segment w; a file's content is the number of the segment that   *)
(* was exported to it.                                                      *)

MaxWorkers == 2

WorkerStrategies ==
    {"_shazam_detect", "_acoustid_detect", "_tempo_detect", "_extract_signature"}

\* temp_path of lines 109, 151, 182 and 251
temp_path(strategy) ==
    IF strategy = "_extract_signature" THEN "temp_ref.wav" ELSE "temp_segment.wav"

\* what a strategy call leaves alone
temp_frame == <<pc, reference_folder, reference_signatures, match_vars,
                pipeline_vars, seg_vars, thr_vars, build_vars>>

\* segment.export(temp_path, format="wav")
strategy_export ==
    \E w \in 1..Len(workers) :
        /\ workers[w].pc = "called"
        /\ temp_files' = [temp_files EXCEPT ![temp_path(workers[w].strategy)] = w]
        /\ workers' = [workers EXCEPT ![w].pc = "exported"]
        /\ UNCHANGED temp_frame

\* the library call that reads temp_path (shazam.recognize, acoustid.match,
\* librosa.load): it hears what the file holds now, or raises; the except
\* clause returns [] (None in _extract_signature) and removes nothing
strategy_work ==
    \E w \in 1..Len(workers), raises \in BOOLEAN :
        /\ workers[w].pc = "exported"
        /\ LET held == temp_files[temp_path(workers[w].strategy)] IN
           workers' = [workers EXCEPT ![w] =
              IF held = 0
              THEN [@ EXCEPT !.pc = "returned", !.status = "file_missing"]
              ELSE IF raises
                   THEN [@ EXCEPT !.pc = "returned", !.status = "exception"]
                   ELSE [@ EXCEPT !.pc = "worked", !.heard = held]]
        /\ UNCHANGED <<temp_files, temp_frame>>

\* "if os.path.exists(temp_path): os.remove(temp_path)", then the return
strategy_cleanup ==
    \E w \in 1..Len(workers) :
        /\ workers[w].pc = "worked"
        /\ temp_files' = [temp_files EXCEPT ![temp_path(workers[w].strategy)] = 0]
        /\ workers' = [workers EXCEPT ![w].pc = "returned", ![w].status = "ok"]
        /\ UNCHANGED temp_frame

InitTemp ==
    /\ pc = "calls"
    /\ \E n \in 1..MaxWorkers :
          workers \in [1..n -> [pc : {"called"}, strategy : WorkerStrategies,
                                status : {"pending"}, heard : {0}]]
    /\ temp_files = NoFiles
    /\ build_i = 0
    /\ windows = <<>>
    /\ reference_signatures = <<>>
    /\ reference_folder = NoFolder
    /\ MatchIdle
    /\ PipelineIdle
    /\ SegIdle
    /\ ThrIdle

NextTemp == strategy_export \/ strategy_work \/ strategy_cleanup

SpecTemp == InitTemp /\ [][NextTemp]_vars

-----------------------------------------------------------------------------
(* _build_reference_database, one reference file at a time.                 *)

MaxRefFiles == 3

\* len(audio) of the reference tracks, in milliseconds
TrackLengths == {8000, 20000, 30000, 45000}

RefNames == <<"song_a", "song_b", "song_c">>

\* a file of the folder: decodes is whether AudioSegment.from_file returns,
\* sig what _extract_signature returns for its window (NoSignature: None)
RefFiles(k) ==
    [name : {RefNames[k]}, len : TrackLengths, decodes : BOOLEAN,
     sig : {SigA, NoSignature}]

BuildFolders ==
    {AbsentFolder} \cup
    UNION {{FolderOf(files) :
               files \in {fs \in [1..n -> UNION {RefFiles(k) : k \in 1..n}] :
                             \A k \in 1..n : fs[k] \in RefFiles(k)}} :
           n \in 0..MaxRefFiles}

\* pydub's AudioSegment._parse_position: a negative position counts from
\* the end of the segment
parse_position(val, len) == IF val < 0 THEN len - (-val) ELSE val

\* pydub's AudioSegment.__getitem__ for audio[start:stop]: both ends are
\* capped at len(audio) and then parsed; a start that is still negative
\* leaves more than 2 ms of frames missing (the track lengths here are whole
\* seconds) and the slice raises TooManyMissingFrames
audio_slice(len, start, stop) ==
    LET first == parse_position(Min(start, len), len)
        last == parse_position(Min(stop, len), len)
    IN IF first < 0
       THEN [raised |-> TRUE, start |-> 0, end |-> 0]
       ELSE [raised |-> FALSE, start |-> first, end |-> last]

\* mid_point = len(audio) // 2; segment = audio[mid_point-15000:mid_point+15000]
reference_window(len) ==
    audio_slice(len, (len \div 2) - 15000, (len \div 2) + 15000)

\* the loop abandoned at the first failing file, the rest of the folder unread
after_failure_mut(i, n) == n

\* the except clause of line 245 ends the iteration for this file only: the
\* for loop goes on with the next one
after_failure(i, n) == i + 1

build_frame == <<reference_folder, match_vars, pipeline_vars, seg_vars,
                 thr_vars, temp_vars>>

\* audio = AudioSegment.from_file(filepath)
build_load ==
    /\ pc = "b_load"
    /\ build_i < Len(reference_folder.files)
    /\ IF reference_folder.files[build_i + 1].decodes
       THEN pc' = "b_slice" /\ UNCHANGED build_i
       ELSE /\ build_i' = after_failure(build_i, Len(reference_folder.files))
            /\ pc' = "b_load"
    /\ UNCHANGED <<reference_signatures, windows, build_frame>>

\* lines 236-237: the middle of the track is sliced out
build_slice ==
    /\ pc = "b_slice"
    /\ LET len == reference_folder.files[build_i + 1].len
           w == reference_window(len)
       IN IF w.raised
          THEN /\ build_i' = after_failure(build_i, Len(reference_folder.files))
               /\ pc' = "b_load"
               /\ UNCHANGED windows
          ELSE /\ windows' = Append(windows,
                                [len |-> len, start |-> w.start, end |-> w.end])
               /\ pc' = "b_sig"
               /\ UNCHANGED build_i
    /\ UNCHANGED <<reference_signatures, build_frame>>

\* lines 239-243: signature = self._extract_signature(segment), stored under
\* the file's base name when it is not None
build_store ==
    /\ pc = "b_sig"
    /\ LET f == reference_folder.files[build_i + 1] IN
       reference_signatures' =
           IF f.sig # NoSignature
           THEN Append(reference_signatures, [name |-> f.name, sig |-> f.sig])
           ELSE reference_signatures
    /\ build_i' = build_i + 1
    /\ pc' = "b_load"
    /\ UNCHANGED <<windows, build_frame>>

\* the for loop is exhausted (or line 224 returned at once)
build_return ==
    /\ pc = "b_load"
    /\ build_i >= Len(reference_folder.files)
    /\ pc' = "b_done"
    /\ UNCHANGED <<reference_signatures, build_vars, build_frame>>

InitBuild ==
    /\ pc = "b_load"
    /\ reference_folder \in BuildFolders
    /\ reference_signatures = <<>>
    /\ build_i = 0
    /\ windows = <<>>
    /\ temp_files = NoFiles
    /\ workers = <<>>
    /\ MatchIdle
    /\ PipelineIdle
    /\ SegIdle
    /\ ThrIdle

NextBuild == build_load \/ build_slice \/ build_store \/ build_return

SpecBuild == InitBuild /\ [][NextBuild]_vars

-----------------------------------------------------------------------------
(* Claims about the Matching Engine, checked under SpecMatch.               *)

MatchReturned == pc = "rm_ret" /\ current_sig # NoSignature

MatchEnded == pc \in {"rm_ret", "rm_raised"} /\ current_sig # NoSignature

IdenticalRefs == {i \in 1..Len(reference_signatures) :
                    reference_signatures[i].sig = current_sig}

\* C6 as stated: whenever the query signature equals a stored reference
\* signature, _reference_match computes combined score 1.0 for that reference
\* and returns it as the match, whatever the signature and the database.
C6_IdenticalAlwaysBest ==
    MatchEnded =>
        \A i \in IdenticalRefs :
            /\ pc = "rm_ret"
            /\ scores[i] = One
            /\ match_out = <<reference_detection(reference_signatures[i].name, One)>>

\* C7: _reference_match returns at most one candidate; it returns one only if
\* the highest combined score over all references is strictly greater than
\* 0.6, and that candidate carries the highest score; when no reference
\* scores above 0.6 (a score of exactly 0.6 included) it returns none.
C7_ReportedOnlyAboveFloor ==
    MatchReturned =>
        /\ Len(match_out) <= 1
        /\ Len(scores) = Len(reference_signatures)
        /\ match_out # <<>> =>
             /\ RLess(AcceptFloor, match_out[1].confidence)
             /\ \E i \in 1..Len(scores) :
                  /\ scores[i] = match_out[1].confidence
                  /\ reference_signatures[i].name = match_out[1].title
             /\ \A i \in 1..Len(scores) : RLeq(scores[i], match_out[1].confidence)
        /\ (\A i \in 1..Len(scores) : RLeq(scores[i], AcceptFloor))
             => match_out = <<>>

\* C7 witness: the best reference scores exactly 0.6 and nothing is returned.
C7_Witness ==
    /\ MatchReturned
    /\ Len(scores) >= 1
    /\ \E i \in 1..Len(scores) : scores[i] = AcceptFloor
    /\ \A i \in 1..Len(scores) : RLeq(scores[i], AcceptFloor)
    /\ match_out = <<>>

-----------------------------------------------------------------------------
(* Claims about the detection pipeline, checked under Spec.                 *)

StrategyRank(s) ==
    CASE s = "shazam" -> 1
      [] s = "acoustid" -> 2
      [] s = "reference" -> 3
      [] OTHER -> 4

\* C1: within one _detect_song_segment call the strategies are invoked in
\* the order shazam, acoustid, reference, tempo, and a strategy that returned
\* a detection is the last one invoked.
C1_FixedOrderShortCircuit ==
    /\ \A i, j \in 1..Len(calls) :
          i < j => StrategyRank(calls[i].strategy) < StrategyRank(calls[j].strategy)
    /\ \A i \in 1..Len(calls) : calls[i].outcome = "match" => i = Len(calls)

\* C1 witness: AcoustID matched after Shazam found nothing, and the call
\* returned without reference matching or the tempo heuristic, both available.
C1_Witness ==
    /\ pc = "d_ret"
    /\ Len(calls) = 2
    /\ calls[1].strategy = "shazam"
    /\ calls[2] = [strategy |-> "acoustid", outcome |-> "match"]
    /\ reference_signatures # <<>>
    /\ LIBROSA_AVAILABLE

\* C2 as stated: when analyze_segments, analyze_with_silence_detection or
\* analyze_audio_file returns, its list holds exactly one record per segment
\* it analyzed.
C2_OneRecordPerSegment ==
    pc = "as_ret" => Len(results) = analyzed

NewRecords == SubSeq(results', Len(results) + 1, Len(results'))

IsSentinel(r) == r.song = "undetected" /\ r.confidence = Zero /\ r.method = "none"

NoStrategyMatched == \A i \in 1..Len(calls) : calls[i].outcome # "match"

\* C3: when _detect_song_segment returns to analyze_segments,
\* analyze_with_silence_detection or analyze_audio_file and no strategy it
\* tried produced a detection, exactly one record is appended, with song
\* "undetected", confidence 0 and method "none"; when some strategy produced
\* a detection, no appended record is an undetected one.
C3_UndetectedSentinel ==
    [][(pc = "d_ret" /\ entry # "find_song_in_folder") =>
          /\ NoStrategyMatched =>
                Len(NewRecords) = 1 /\ IsSentinel(NewRecords[1])
          /\ ~NoStrategyMatched =>
                /\ Len(NewRecords) >= 1
                /\ \A k \in 1..Len(NewRecords) :
                      /\ NewRecords[k].song # "undetected"
                      /\ NewRecords[k].method # "none"]_vars

\* C3 witness: with every strategy available and a non-empty reference
\* database, a segment of process_folder has been recorded as undetected.
C3_Witness ==
    /\ pc = "segs"
    /\ entry = "process_folder"
    /\ SHAZAM_AVAILABLE /\ ACOUSTID_AVAILABLE /\ LIBROSA_AVAILABLE
    /\ reference_signatures # <<>>
    /\ results # <<>>
    /\ IsSentinel(results[Len(results)])

ShazamFailed ==
    /\ Len(calls) >= 1
    /\ calls[1].strategy = "shazam"
    /\ calls[1].outcome \in {"exception", "no_match"}

\* the strategy _detect_song_segment turns to after Shazam found nothing
NextAfterShazam ==
    IF ACOUSTID_AVAILABLE THEN "acoustid"
    ELSE IF reference_signatures # <<>> THEN "reference"
         ELSE IF LIBROSA_AVAILABLE THEN "tempo" ELSE None

\* C4: a _shazam_detect call never raises; when the recognition failed (an
\* exception or no match) it contributed no detection, and
\* _detect_song_segment has gone on to the next available strategy by the
\* time it ends.
C4_ShazamFailureFallsThrough ==
    /\ \A i \in 1..Len(calls) :
          calls[i].strategy = "shazam" => calls[i].outcome # "raised"
    /\ (ShazamFailed /\ pc = "d2") => detections = <<>>
    /\ (ShazamFailed /\ pc \in {"d_ret", "raised"} /\ NextAfterShazam # None) =>
          /\ Len(calls) >= 2
          /\ calls[2].strategy = NextAfterShazam

\* C4 witness: the recognition raised, and a later strategy detected the song.
C4_Witness ==
    /\ pc = "d_ret"
    /\ Len(calls) >= 2
    /\ calls[1] = [strategy |-> "shazam", outcome |-> "exception"]
    /\ calls[Len(calls)].outcome = "match"
    /\ detections # <<>>

\* C5 as stated: in process_folder and find_song_in_folder, a failure to load
\* a file or an exception in a segment never ends the run, and no record
\* gathered so far is dropped.
C5_FailureNeverAbortsBatch ==
    [][(entry \in FolderEntries /\ pc \in {"files", "raised"}) =>
          /\ pc' # "crashed"
          /\ Len(results') + Len(all_results') >= Len(results) + Len(all_results)]_vars

-----------------------------------------------------------------------------
(* Claims about the silence segmentation, checked under SpecSeg.            *)

ProcessFileEnded == pc \in {"pf_done", "pf_skipped"}

\* the range claimed for a detected sound range: padded and clamped
Padded(range) ==
    <<Max(0, range[1] - keep_silence), Min(Len(audio), range[2] + keep_silence)>>

PaddedFiles(ns) == [i \in 1..Len(ns) |-> segment_file(i, Padded(ns[i]))]

\* C8 as stated, for process_file of main.py: in split mode the exported
\* files are, in order, the detected sound ranges each extended by
\* keep_silence at both ends and clamped to the buffer.
C8_SplitPadsByKeepSilence ==
    (script = "main.py" /\ mode = "split" /\ pc = "pf_done") =>
        written = PaddedFiles(detect_nonsilent(audio, min_silence_len))

\* C9 as stated: the buffer of three 20 s tones (100 ticks) with 2 s gaps,
\* split by main.py with min_silence_len 1000 ms and keep_silence 200 ms,
\* gives exactly 3 files, in time order, each 20.4 s (102 ticks) long.
C9_ThreeTonesPadded ==
    (audio = BenchmarkAudio /\ mode = "split" /\ pc = "pf_done") =>
        /\ Len(written) = 3
        /\ \A i \in 1..Len(written) : Len(written[i].content) = 102
        /\ \A i \in 1..(Len(written) - 1) :
              written[i].content[1] < written[i + 1].content[1]

AllSilent == \A k \in 1..Len(audio) : audio[k] <= silence_thresh

\* C10 as stated: for an entirely silent buffer the segmentation yields no
\* range and no chunk, and process_file ends having written no file.
C10_SilentBufferNoOutput ==
    (AllSilent /\ ProcessFileEnded) => (segments = <<>> /\ written = <<>>)

\* a run of min_silence_len consecutive ticks, each at or under the threshold
HasSilentRun ==
    \E i \in 0..(Len(audio) - min_silence_len) :
        \A k \in 1..min_silence_len : audio[i + k] <= silence_thresh

\* a slice of min_silence_len ticks whose rms is at or under the threshold
HasSilentWindow ==
    \E i \in 0..(Len(audio) - min_silence_len) :
        is_silent_slice(audio, i, min_silence_len)

WholeBuffer == << <<0, Len(audio)>> >>

\* C11 as stated: for a buffer without a run of min_silence_len silent ticks,
\* process_file of main.py finds exactly one segment, from 0 to the length of
\* the buffer.
C11_NoSilentRunOneSegment ==
    (script = "main.py" /\ pc # "pf_detect" /\ ~HasSilentRun) =>
        segments = WholeBuffer

\* C11 amended: for a buffer in which no slice of min_silence_len ticks has
\* an rms at or under the threshold, process_file of main.py finds exactly
\* one segment, from 0 to the length of the buffer.
C11_NoSilentWindowOneSegment ==
    (script = "main.py" /\ pc # "pf_detect" /\ ~HasSilentWindow) =>
        segments = WholeBuffer

\* C11 witness: a loud buffer with a silent dip shorter than min_silence_len
\* has been exported as one segment.
C11_Witness ==
    /\ script = "main.py"
    /\ mode = "split"
    /\ pc = "pf_done"
    /\ min_silence_len = 3
    /\ audio = <<5, 0, 0, 5, 5>>
    /\ ~HasSilentWindow
    /\ written = <<segment_file(1, <<0, 5>>)>>

\* C12: in trim mode the ranges the segmenter hands to process_file (of
\* main.py, main-v2.py and main-v3.py) are non-empty, lie in the buffer, do
\* not overlap and have strictly increasing start times.
C12_TrimRangesOrdered ==
    (mode = "trim" /\ pc # "pf_detect") =>
        /\ \A i \in 1..Len(segments) :
              0 <= segments[i][1] /\ segments[i][1] < segments[i][2]
              /\ segments[i][2] <= Len(audio)
        /\ \A i, j \in 1..Len(segments) :
              i < j => /\ segments[i][1] < segments[j][1]
                       /\ segments[i][2] <= segments[j][1]

\* C12 witness: a trim run has kept two ranges of a buffer and saved them.
C12_Witness ==
    /\ mode = "trim"
    /\ pc = "pf_done"
    /\ Len(segments) = 2
    /\ written # <<>>

-----------------------------------------------------------------------------
(* Claims about the Threshold Recommender, checked under SpecThr.           *)

RecommendEnded == pc \in {"rt_ret", "rt_raised"}

LastOutcome == thr_out[Len(thr_out)]

HasFinite == \E i \in 1..Len(profile) : profile[i].k = "fin"

FiniteValues == SelectSeq(profile, LAMBDA x : x.k = "fin")

\* C13: every non-finite loudness value (-inf, +inf, NaN) is excluded before
\* the histogram is built, the call never fails, and a profile without any
\* finite value gets the fallback threshold -40.
\* Violated: +inf passes the filter of line 72 and np.histogram raises.
C13_NonFiniteExcluded ==
    /\ pc = "rt_hist" => \A i \in 1..Len(dbfs_values) : dbfs_values[i].k = "fin"
    /\ pc # "rt_raised"
    /\ (pc = "rt_ret" /\ ~HasFinite) => LastOutcome = returned(default_threshold)

\* the left edge of the lowest-index bin of maximal count, over the finite
\* values of the profile
ModalEdge ==
    LET lo2 == first_edge2(FiniteValues)
        hi2 == last_edge2(FiniteValues)
        hist == histogram(FiniteValues, lo2, hi2)
        modal == CHOOSE b \in 0..(bins - 1) :
                     /\ \A c \in 0..(bins - 1) : hist[c] <= hist[b]
                     /\ \A c \in 0..(b - 1) : hist[c] < hist[b]
    IN  bin_edge(modal, lo2, hi2)

\* r is the integer nearest to x, the even one of two equally near
NearestInteger(r, x) ==
    /\ 2 * Abs(r * x.d - x.n) <= x.d
    /\ 2 * Abs(r * x.d - x.n) = x.d => r % 2 = 0

\* C14 as stated: with at least one finite loudness value the call returns
\* exactly the left edge of the modal bin minus 5.
\* Violated: the code returns int(round(peak_bin - 5)), and a +inf value
\* makes the call raise.
C14_ExactlyEdgeMinusOffset ==
    (RecommendEnded /\ HasFinite) =>
        /\ ~LastOutcome.raised
        /\ Rat(LastOutcome.value, 1) = RAdd(ModalEdge, Rat(-peak_offset, 1))

\* C14 amended: with at least one finite loudness value, the call raises
\* ValueError when the profile holds +inf, and otherwise returns the integer
\* nearest to (left edge of the lowest-index modal bin) - 5, a tie going to
\* the even integer.
C14_RoundedEdgeMinusOffset ==
    (RecommendEnded /\ HasFinite) =>
        IF \E i \in 1..Len(profile) : profile[i] = PosInf
        THEN LastOutcome = ValueError
        ELSE /\ ~LastOutcome.raised
             /\ NearestInteger(LastOutcome.value,
                               RAdd(ModalEdge, Rat(-peak_offset, 1)))

\* two chunks at -78 dBFS make bin 1 modal, its edge is -78.5 and -83.5 is
\* rounded to -84
C14_Witness ==
    /\ pc = "rt_ret"
    /\ profile = <<Fin(-80), Fin(-78), Fin(-78), Fin(-5)>>
    /\ thr_out = <<returned(-84)>>

-----------------------------------------------------------------------------
(* Claims about the detection pipeline, continued.                          *)

\* C16: a _shazam_detect call that has started returns: whatever the
\* recognition service does, _detect_song_segment gets past Method 1.
\* Violated under SpecLive: nothing ends the wait of line 115.
C16_ShazamDetectReturns ==
    (pc = "d1" /\ SHAZAM_AVAILABLE) ~> (pc = "d2")

\* the folder is absent, empty, or none of its files yields a signature
NoUsableReference ==
    \/ ~reference_folder.exists
    \/ \A k \in 1..Len(reference_folder.files) :
          reference_folder.files[k].sig = NoSignature

\* C17: a reference folder that is absent, empty or yields no signature
\* leaves the analyzer with an empty reference database, and reference
\* matching is invoked for a segment only while the database is non-empty.
C17_ReferenceOnlyWithDatabase ==
    /\ NoUsableReference => reference_signatures = <<>>
    /\ \A i \in 1..Len(calls) :
          calls[i].strategy = "reference" => reference_signatures # <<>>

\* C17 witness: the only reference file gave no signature; a segment went
\* through _detect_song_segment, which skipped Method 3 and ran Method 4.
C17_Witness ==
    /\ pc = "d_ret"
    /\ reference_folder.given /\ reference_folder.exists
    /\ reference_folder.files # <<>>
    /\ NoUsableReference
    /\ LIBROSA_AVAILABLE
    /\ reference_signatures = <<>>
    /\ \E i \in 1..Len(calls) : calls[i].strategy = "tempo"
    /\ \A i \in 1..Len(calls) : calls[i].strategy # "reference"

\* C18: process_folder, once some file has yielded an analyzed segment, ends
\* normally with every record of all_results written to the CSV.
\* Violated: the records of analyze_segments carry the keys file, segment,
\* start_time and duration_s, which save_results_csv's DictWriter rejects.
C18_ProcessFolderWritesCsv ==
    (entry = "process_folder" /\ all_results # <<>> /\ pc \in {"done", "crashed"}) =>
        /\ pc = "done"
        /\ csv_rows = all_results

-----------------------------------------------------------------------------
(* Claims about the Matching Engine, continued (SpecMatch).                 *)

\* C19: no exception leaves the scoring, and no score that reaches the
\* decision of line 305 is NaN or negative: a NaN correlation and a zero
\* tempo denominator each count as sub-score 0.
\* Violated: with both tempos 0 the division of line 290 raises
\* ZeroDivisionError; only the NaN correlations are clamped.
C19_DegeneraciesClamped ==
    /\ pc # "rm_raised"
    /\ \A i \in 1..Len(scores) : scores[i] # NaN /\ RLeq(Zero, scores[i])

\* the loop has gone through the whole database and _reference_match returned
MatchCompleted ==
    /\ pc = "rm_ret"
    /\ current_sig # NoSignature
    /\ Len(scores) = Len(reference_signatures)

\* reference i has the highest score, above the floor, and is the first such
FirstBest(i) ==
    /\ RLess(AcceptFloor, scores[i])
    /\ \A j \in 1..Len(scores) : RLeq(scores[j], scores[i])
    /\ \A j \in 1..(i - 1) : RLess(scores[j], scores[i])

\* Lemma: when the loop has gone through the whole database, the reference
\* reported is the first of those with the highest score above the floor.
TieLemma_FirstOfTiedBest ==
    MatchCompleted =>
        \A i \in 1..Len(scores) :
            FirstBest(i) =>
                match_out = <<reference_detection(reference_signatures[i].name,
                                                  scores[i])>>

\* the tempo sub-score as specified: 0 when both tempos are 0
ClaimedTempoScore(a, b) == IF Max(a, b) = 0 THEN Zero ELSE tempo_score(a, b)

\* the combined score of reference i as specified
ClaimedScore(i) ==
    LET q == current_sig
        r == reference_signatures[i].sig
    IN  RAdd(RAdd(RMul(ClaimedTempoScore(q.tempo, r.tempo), TempoWeight),
                  RMul(corr_score(corrcoef(q.chroma, r.chroma)), ChromaWeight)),
             RMul(corr_score(corrcoef(q.mfcc, r.mfcc)), MfccWeight))

\* reference i is the first of several that share the highest score, which
\* is above the floor
FirstOfSeveralBest(i) ==
    /\ RLess(AcceptFloor, ClaimedScore(i))
    /\ \A j \in 1..Len(reference_signatures) : RLeq(ClaimedScore(j), ClaimedScore(i))
    /\ \A j \in 1..(i - 1) : RLess(ClaimedScore(j), ClaimedScore(i))
    /\ \E j \in (i + 1)..Len(reference_signatures) : ClaimedScore(j) = ClaimedScore(i)

\* C20: when several references share the highest combined score above the
\* floor, _reference_match reports the first of them in iteration order,
\* whatever the database holds.
\* Violated: when a tied reference and the query both have tempo 0 the scan
\* ends in ZeroDivisionError and nothing is reported.
C20_FirstOfTiedBest ==
    MatchEnded =>
        \A i \in 1..Len(reference_signatures) :
            FirstOfSeveralBest(i) =>
                match_out = <<reference_detection(reference_signatures[i].name,
                                                  ClaimedScore(i))>>

-----------------------------------------------------------------------------
(* Claims about the temporary files, checked under SpecTemp and SpecSeg.    *)

Returned(w) == workers[w].pc = "returned"

\* C21: concurrent strategy calls on different segments do not interfere:
\* a call that returns has analysed its own segment, or failed for a reason
\* of its own.
\* Violated: every call exports to the same fixed path, so a call can read
\* the file of another call, or find its file removed.
C21_ConcurrentCallsIndependent ==
    \A w \in 1..Len(workers) :
        Returned(w) =>
            \/ workers[w].status = "exception"
            \/ workers[w].status = "ok" /\ workers[w].heard = w

\* C29: when a strategy call has returned, with a result or after a caught
\* failure, the temporary file it exported no longer exists (no other call
\* has started).
\* Violated: the except clauses return without removing the file.
C29_TempFileRemoved ==
    \A w \in 1..Len(workers) :
        (Returned(w) /\ \A v \in 1..Len(workers) : v # w => workers[v].pc = "called")
            => temp_files[temp_path(workers[w].strategy)] = 0

\* C30: when process_file has ended, by whichever path, the file written by
\* convert_to_pcm is gone.
\* Violated: the return of main.py line 57 skips the removal of lines 133-134.
C30_TempPcmRemoved ==
    ProcessFileEnded => temp_files["_temp.wav"] = 0


-----------------------------------------------------------------------------
(* Claims about the construction of the reference database, checked under   *)
(* SpecBuild.                                                               *)

\* a file the loop can fingerprint: it decodes, its window can be sliced and
\* the extraction returns a signature
usable(f) ==
    f.decodes /\ ~reference_window(f.len).raised /\ f.sig # NoSignature

StoredOf(files) ==
    LET u == SelectSeq(files, usable)
    IN [k \in 1..Len(u) |-> [name |-> u[k].name, sig |-> u[k].sig]]

\* C22: a failure on one reference file skips only that entry: when the
\* construction ends, which it does by returning, the database holds the
\* signature of every usable file of the folder under its base name, in the
\* order of the folder, and nothing else.
C22_FailureSkipsOneEntry ==
    /\ pc \in {"b_load", "b_slice", "b_sig", "b_done"}
    /\ reference_signatures =
           StoredOf(SubSeq(reference_folder.files, 1, build_i))
    /\ pc = "b_done" => build_i = Len(reference_folder.files)

\* C22 witness: of three files the second does not decode; the first and
\* the third are stored.
C22_Witness ==
    /\ pc = "b_done"
    /\ Len(reference_folder.files) = 3
    /\ usable(reference_folder.files[1])
    /\ ~reference_folder.files[2].decodes
    /\ usable(reference_folder.files[3])
    /\ reference_signatures = <<[name |-> "song_a", sig |-> SigA],
                                [name |-> "song_c", sig |-> SigA]>>

\* C28: the window fingerprinted for a reference track of any length is
\* [max(0, mid - 15000), min(len, mid + 15000)], and 0 <= start < end <= len.
\* Violated: for a track shorter than 30 s the negative start counts from
\* the end of the track.
C28_ClampedMiddleWindow ==
    \A k \in 1..Len(windows) :
        LET w == windows[k]
            mid == w.len \div 2
        IN /\ w.start = Max(0, mid - 15000)
           /\ w.end = Min(w.len, mid + 15000)
           /\ 0 <= w.start /\ w.start < w.end /\ w.end <= w.len
-----------------------------------------------------------------------------
(* Claims about the detection pipeline, checked under Spec.                 *)

\* C23: the reference database is read-only after construction: no step of
\* any entry point (_detect_song_segment and its strategies, the loops of
\* analyze_audio_file, analyze_with_silence_detection, process_folder and
\* find_song_in_folder) adds, removes or changes an entry.
C23_ReferenceDatabaseReadOnly ==
    [][reference_signatures' = reference_signatures]_vars

\* C23 witness: _detect_song_segment returns after _reference_match has run
\* against a database of two entries, which is still what the constructor
\* built.
C23_Witness ==
    /\ \E i \in 1..Len(calls) : calls[i].strategy = "reference"
    /\ Len(reference_signatures) = 2
    /\ reference_signatures =
           build_reference_database(reference_folder, LIBROSA_AVAILABLE)
    /\ pc = "d_ret"
\* the tempos of TempoOutcomes that line 200 accepts
PlausibleTempos == {t \in TempoOutcomes : 60 <= t /\ t <= 180}

\* C24: a detection of the tempo heuristic (method audio_signature) comes
\* from an estimated tempo in [60, 180] only, the tempo its title carries,
\* and its confidence never exceeds 0.7.
C24_TempoDetectionBounded ==
    \A k \in 1..Len(detections) :
        detections[k].method = "audio_signature" =>
            /\ \E t \in PlausibleTempos :
                  detections[k].title = "Song_C_" \o ToString(t)
            /\ RLeq(detections[k].confidence, Rat(7, 10))

\* C24 witness: _tempo_detect has run on a segment of 180 BPM and its
\* detection carries the cap, 0.7, where tempo / 120 is 1.5.
C24_Witness ==
    /\ pc = "d_ret"
    /\ Len(detections) = 1
    /\ detections[1].method = "audio_signature"
    /\ detections[1].title = "Song_C_180"
    /\ detections[1].confidence = Rat(7, 10)
    /\ calls[Len(calls)] = [strategy |-> "tempo", outcome |-> "match"]
\* the ranges among the first n of the file that last 10 s or more
UsableSegments(n) ==
    {k \in 1..n : segments[k][2] - segments[k][1] >= 10000}

\* C25: in every entry point the segment loop skips exactly the segments
\* shorter than 10 s: of the ranges it has taken so far, the ones handed to
\* _detect_song_segment are the ones of 10 s or more.
\* Violated: process_folder and find_song_in_folder skip below 30 s,
\* analyze_with_silence_detection skips nothing.
C25_ShortSegmentsSkipped ==
    pc \in {"segs", "d1"} =>
        analyzed = Cardinality(UsableSegments(seg_i))
\* the timestamp field of a record of analyze_segments (start_time) or of
\* analyze_with_silence_detection (timestamp), and the one its segment's
\* range gives
RecordTimestamp(r) ==
    IF entry = "process_folder" THEN r.start_time ELSE r.timestamp

RangeTimestamp(k) ==
    IF entry = "process_folder"
    THEN start_timestamp(segments[k][1]) ELSE ms_to_timestamp(segments[k][1])

\* C26: the list analyze_segments / analyze_with_silence_detection builds
\* and returns is in segment order: segment indices never decrease along
\* the list, and every record carries the start of its own range, so the
\* timestamps follow the order of the segmenter's ranges.
C26_RecordsInSegmentOrder ==
    (/\ entry \in {"process_folder", "analyze_with_silence_detection"}
     /\ pc \in {"segs", "d1", "d2", "d3", "d4", "d_ret", "as_ret"}) =>
        /\ \A j, k \in 1..Len(results) :
              j < k => results[j].segment <= results[k].segment
        /\ \A j \in 1..Len(results) :
              /\ results[j].segment \in 1..seg_i
              /\ RecordTimestamp(results[j]) = RangeTimestamp(results[j].segment)

\* C26 witness: analyze_segments returns the records of two segments, the
\* first at 00:01 and the second at 01:01.
C26_Witness ==
    /\ entry = "process_folder"
    /\ pc = "as_ret"
    /\ Len(segments) = 2
    /\ Len(results) >= 2
    /\ results[1].segment = 1 /\ results[1].start_time = <<0, 1>>
    /\ results[Len(results)].segment = 2
    /\ results[Len(results)].start_time = <<1, 1>>
\* a confidence in the closed interval [0, 1]
UnitConfidence(r) ==
    /\ r.confidence.d > 0
    /\ RLeq(Zero, r.confidence)
    /\ RLeq(r.confidence, One)

\* C27: every result record, of whichever entry point and whichever
\* strategy (or the undetected row), and every detection a strategy returns,
\* has a confidence in [0, 1].
C27_ConfidenceInUnitInterval ==
    /\ \A k \in 1..Len(detections) : UnitConfidence(detections[k])
    /\ \A k \in 1..Len(results) : UnitConfidence(results[k])
    /\ \A k \in 1..Len(all_results) : UnitConfidence(all_results[k])

\* C27 witness: an analysis returns the record of a networked strategy and
\* the undetected row of another segment.
C27_Witness ==
    /\ pc = "as_ret"
    /\ \E k \in 1..Len(results) :
          results[k].method = "none" /\ results[k].confidence = Zero
    /\ \E k \in 1..Len(results) :
          results[k].method \in {"shazam", "acoustid"}
          /\ RLess(Zero, results[k].confidence)
====
